---------------------------- MODULE Spec2Model ----------------------------
(***************************************************************************)
(* A model of ompl::control::ControlManifold and CompoundControlManifold   *)
(* (src/src/ompl/control/src/ControlManifold.cpp): the process-wide name   *)
(* registry kept by namesList, the constructor / destructor / setName that *)
(* use it, and the compound manifold's child list, lock, dimension,        *)
(* flattened value lookup and control allocation.                          *)
(***************************************************************************)
EXTENDS Naturals, Integers, Sequences, FiniteSets, TLC

(***************************************************************************)
(* Bounds of the model.                                                    *)
(***************************************************************************)
\* caller threads that construct, destroy and rename manifolds
NumThreads == 2
\* storage places in which a control manifold can be constructed
NumManifolds == 3

\* compound control manifolds
NumCompounds == 2
\* sub-manifolds added in all, over all the compound manifolds
MaxAdds == 3
\* allocations (controls, containers, arrays) alive when allocControl is called
MaxLive == 1
\* sub-manifolds added in all, where the manifolds built are then put to use
\* (propagation, setup, copying and comparing controls)
MaxParts == 2

Threads == 1..NumThreads
ManifoldIds == 1..NumManifolds

\* names of the state manifolds a control manifold is bound to
StateNames == {"A", "B", "C"}

\* name_ of storage that holds no object
NoName == ""

VARIABLES
  used,      \* namesList: static std::set<std::string> used
  alive,     \* the storage places that hold a constructed control manifold
  name_,     \* ControlManifold::name_ of each storage place
  pc,        \* where each thread stands: "idle", "ctor" or "setName"
  call,      \* the call each thread is in: its object and arguments
  last,      \* the call that returned last and how it returned
  components_,      \* CompoundControlManifold::components_
  componentCount_,  \* CompoundControlManifold::componentCount_
  locked_,          \* CompoundControlManifold::locked_
  atLock,    \* what a compound manifold was when lock() was first called
  controls,  \* the compound controls the caller holds
  outstanding,  \* per leaf manifold, its controls allocated and not freed
  containers,   \* CompoundControl objects allocated and not deleted
  arrays,       \* components arrays allocated and not deleted
  ret,       \* the compound manifold call that returned last
  statePropagation_   \* ControlManifold::statePropagation_ of each manifold

namesVars == <<used, alive, name_, pc, call, last>>

compoundVars ==
  <<components_, componentCount_, locked_, atLock, controls, outstanding,
    containers, arrays, ret, statePropagation_>>

vars ==
  <<used, alive, name_, pc, call, last, components_, componentCount_,
    locked_, atLock, controls, outstanding, containers, arrays, ret,
    statePropagation_>>

\* the manifolds of the compound part: three concrete (leaf) control
\* manifolds, which differ in dimension and in the slots they expose, and
\* the compound ones
Leaves == {1, 2, 3}
Compounds == {Cardinality(Leaves) + k : k \in 1..NumCompounds}
Objects == Leaves \cup Compounds

NotLocked == [locked |-> FALSE, components |-> <<>>, count |-> 0]

NoRet == [op |-> "none", m |-> 0, err |-> "none", before |-> <<>>, made |-> <<>>]

\* statePropagation_ that holds no function (an empty boost::function)
NoFn == "none"
\* the propagation functions a caller has to give
Fns == {"f"}

\* compound manifolds as constructed: no components, not locked
InitCompound ==
  /\ components_ = [c \in Compounds |-> <<>>]
  /\ componentCount_ = [c \in Compounds |-> 0]
  /\ locked_ = [c \in Compounds |-> FALSE]
  /\ atLock = [c \in Compounds |-> NotLocked]
  /\ controls = <<>>
  /\ outstanding = [l \in Leaves |-> 0]
  /\ containers = 0
  /\ arrays = 0
  /\ ret = NoRet
  /\ statePropagation_ = [m \in Objects |-> NoFn]

(***************************************************************************)
(* namesList(op, name1, name2), lines 48-79.  The whole body runs under    *)
(* the scoped_lock of line 52, so one call is one step on `used`.  The     *)
(* result is the new set and the exception thrown, if any: the "already    *)
(* in use" Exception is DuplicateName, the "No control manifold with name" *)
(* Exception is UnknownName.                                               *)
(***************************************************************************)
\* a bug: line 56's check forgotten
NamesListAdd_NoCheck(U, name1) == [used |-> U \cup {name1}, err |-> "none"]

NamesListAdd(U, name1) ==
  IF name1 \in U
    THEN [used |-> U, err |-> "DuplicateName"]
    ELSE [used |-> U \cup {name1}, err |-> "none"]

\* a bug: line 66's erase forgotten
NamesListRemove_NoErase(U, name1) ==
  IF name1 \notin U
    THEN [used |-> U, err |-> "UnknownName"]
    ELSE [used |-> U, err |-> "none"]

NamesListRemove(U, name1) ==
  IF name1 \notin U
    THEN [used |-> U, err |-> "UnknownName"]
    ELSE [used |-> U \ {name1}, err |-> "none"]

\* a bug: the checks of lines 72 and 74 in the other order
NamesListReplace_DupFirst(U, name1, name2) ==
  IF name1 = name2
    THEN [used |-> U, err |-> "none"]
    ELSE IF name2 \in U
      THEN [used |-> U, err |-> "DuplicateName"]
      ELSE IF name1 \notin U
        THEN [used |-> U, err |-> "UnknownName"]
        ELSE [used |-> (U \ {name1}) \cup {name2}, err |-> "none"]

\* a bug: line 69's test of name1 != name2 forgotten
NamesListReplace_NoSameTest(U, name1, name2) ==
  IF name1 \notin U
    THEN [used |-> U, err |-> "UnknownName"]
    ELSE IF name2 \in U
      THEN [used |-> U, err |-> "DuplicateName"]
      ELSE [used |-> (U \ {name1}) \cup {name2}, err |-> "none"]

NamesListReplace(U, name1, name2) ==
  IF name1 = name2
    THEN [used |-> U, err |-> "none"]
    ELSE IF name1 \notin U
      THEN [used |-> U, err |-> "UnknownName"]
      ELSE IF name2 \in U
        THEN [used |-> U, err |-> "DuplicateName"]
        ELSE [used |-> (U \ {name1}) \cup {name2}, err |-> "none"]

namesList(U, op, name1, name2) ==
  IF op = 1 THEN NamesListAdd(U, name1)
  ELSE IF op = 2 THEN NamesListRemove(U, name1)
  ELSE IF op = 3 THEN NamesListReplace(U, name1, name2)
  ELSE [used |-> U, err |-> "none"]

\* line 86: "Control[" + stateManifold_->getName() + "]"
ControlName(S) == "Control[" \o S \o "]"

\* ControlManifold::getName, lines 95-98
getName(m) == name_[m]

\* the names setName is called with: plain ones, and ones a constructor makes
Names == {"A", "B", "Control[A]", "Control[B]"}

NoCall == [m |-> 0, name |-> NoName, before |-> {}]

NoLast ==
  [op |-> "none", m |-> 0, name1 |-> NoName, name2 |-> NoName,
   err |-> "none", before |-> {}, after |-> {}]

\* an object is used by one caller at a time: no second call is made on an
\* object while a call on it (or its construction) is still running
Busy(m) == \E t \in Threads : pc[t] # "idle" /\ call[t].m = m

Quiescent == \A t \in Threads : pc[t] = "idle"

LiveNames == {getName(m) : m \in alive}

InitNames ==
  /\ used = {}
  /\ alive = {}
  /\ name_ = [m \in ManifoldIds |-> NoName]
  /\ pc = [t \in Threads |-> "idle"]
  /\ call = [t \in Threads |-> NoCall]
  /\ last = NoLast
  /\ InitCompound

(***************************************************************************)
(* ControlManifold::ControlManifold, lines 84-88, in its two statements.   *)
(***************************************************************************)
\* line 86: name_ = "Control[" + stateManifold_->getName() + "]"
CtorName(t, m, S) ==
  /\ pc[t] = "idle"
  /\ m \notin alive
  /\ ~Busy(m)
  /\ name_' = [name_ EXCEPT ![m] = ControlName(S)]
  /\ pc' = [pc EXCEPT ![t] = "ctor"]
  /\ call' = [call EXCEPT ![t] = [m |-> m, name |-> S, before |-> {}]]
  /\ UNCHANGED <<used, alive, last>>
  /\ UNCHANGED compoundVars

\* a bug: lines 86 and 87 in the other order, so that the name registered is
\* the still empty name_
CtorRegister_Unnamed(t) ==
  /\ pc[t] = "ctor"
  /\ LET m == call[t].m
         r == namesList(used, 1, NoName, "")
     IN /\ used' = r.used
        /\ alive' = IF r.err = "none" THEN alive \cup {m} ELSE alive
        /\ name_' = IF r.err = "none" THEN name_
                    ELSE [name_ EXCEPT ![m] = NoName]
        /\ last' = [op |-> "ctor", m |-> m, name1 |-> name_[m],
                    name2 |-> call[t].name, err |-> r.err,
                    before |-> used, after |-> r.used]
  /\ pc' = [pc EXCEPT ![t] = "idle"]
  /\ call' = [call EXCEPT ![t] = NoCall]
  /\ UNCHANGED compoundVars

\* line 87: namesList(1, name_); an exception leaves the constructor, the
\* object never comes to exist and its destructor does not run
CtorRegister(t) ==
  /\ pc[t] = "ctor"
  /\ LET m == call[t].m
         r == namesList(used, 1, name_[m], "")
     IN /\ used' = r.used
        /\ alive' = IF r.err = "none" THEN alive \cup {m} ELSE alive
        /\ name_' = IF r.err = "none" THEN name_
                    ELSE [name_ EXCEPT ![m] = NoName]
        /\ last' = [op |-> "ctor", m |-> m, name1 |-> name_[m],
                    name2 |-> call[t].name, err |-> r.err,
                    before |-> used, after |-> r.used]
  /\ pc' = [pc EXCEPT ![t] = "idle"]
  /\ call' = [call EXCEPT ![t] = NoCall]
  /\ UNCHANGED compoundVars

(***************************************************************************)
(* ControlManifold::~ControlManifold, lines 90-93: namesList(2, name_),    *)
(* after which the object is gone whether or not the call threw.           *)
(***************************************************************************)
Dtor(t, m) ==
  /\ pc[t] = "idle"
  /\ m \in alive
  /\ ~Busy(m)
  /\ LET r == namesList(used, 2, name_[m], "")
     IN /\ used' = r.used
        /\ last' = [op |-> "dtor", m |-> m, name1 |-> name_[m],
                    name2 |-> NoName, err |-> r.err,
                    before |-> used, after |-> r.used]
  /\ alive' = alive \ {m}
  /\ name_' = [name_ EXCEPT ![m] = NoName]
  /\ UNCHANGED <<pc, call>>
  /\ UNCHANGED compoundVars

(***************************************************************************)
(* ControlManifold::setName, lines 100-104, in its two statements.         *)
(***************************************************************************)
\* a bug: lines 102 and 103 in the other order, so that name_ is assigned
\* before namesList can throw
SetNameRename_AssignFirst(t, m, name) ==
  /\ pc[t] = "idle"
  /\ m \in alive
  /\ ~Busy(m)
  /\ LET r == namesList(used, 3, name_[m], name)
     IN /\ used' = r.used
        /\ IF r.err = "none"
             THEN /\ pc' = [pc EXCEPT ![t] = "setName"]
                  /\ call' = [call EXCEPT
                       ![t] = [m |-> m, name |-> name, before |-> used]]
                  /\ last' = last
             ELSE /\ last' = [op |-> "setName", m |-> m, name1 |-> name_[m],
                              name2 |-> name, err |-> r.err,
                              before |-> used, after |-> r.used]
                  /\ UNCHANGED <<pc, call>>
  /\ name_' = [name_ EXCEPT ![m] = name]
  /\ UNCHANGED alive
  /\ UNCHANGED compoundVars

\* line 102: namesList(3, name_, name); an exception ends the call
SetNameRename(t, m, name) ==
  /\ pc[t] = "idle"
  /\ m \in alive
  /\ ~Busy(m)
  /\ LET r == namesList(used, 3, name_[m], name)
     IN /\ used' = r.used
        /\ IF r.err = "none"
             THEN /\ pc' = [pc EXCEPT ![t] = "setName"]
                  /\ call' = [call EXCEPT
                       ![t] = [m |-> m, name |-> name, before |-> used]]
                  /\ last' = last
             ELSE /\ last' = [op |-> "setName", m |-> m, name1 |-> name_[m],
                              name2 |-> name, err |-> r.err,
                              before |-> used, after |-> r.used]
                  /\ UNCHANGED <<pc, call>>
  /\ UNCHANGED <<alive, name_>>
  /\ UNCHANGED compoundVars

\* line 103: name_ = name
SetNameAssign(t) ==
  /\ pc[t] = "setName"
  /\ LET m == call[t].m
     IN /\ name_' = [name_ EXCEPT ![m] = call[t].name]
        /\ last' = [op |-> "setName", m |-> m, name1 |-> name_[m],
                    name2 |-> call[t].name, err |-> "none",
                    before |-> call[t].before, after |-> used]
  /\ pc' = [pc EXCEPT ![t] = "idle"]
  /\ call' = [call EXCEPT ![t] = NoCall]
  /\ UNCHANGED <<used, alive>>
  /\ UNCHANGED compoundVars

\* what one thread can do next
ThreadNext(t) ==
  \/ \E m \in ManifoldIds, S \in StateNames : CtorName(t, m, S)
  \/ CtorRegister(t)
  \/ \E m \in ManifoldIds : Dtor(t, m)
  \/ \E m \in ManifoldIds, name \in Names : SetNameRename(t, m, name)
  \/ SetNameAssign(t)

\* one caller: every call returns before the next is made
NextNames == ThreadNext(1)

SpecNames == InitNames /\ [][NextNames]_vars

\* several callers, each on objects no other caller is using
NextThreads == \E t \in Threads : ThreadNext(t)

SpecThreads == InitNames /\ [][NextThreads]_vars

(***************************************************************************)
(* namesList called on its own, with every operation code and every pair   *)
(* of names, on every registry content: the function of lines 48-79 as a   *)
(* function of its arguments and of `used`.                                *)
(***************************************************************************)
OpName(op) == IF op = 1 THEN "add" ELSE IF op = 2 THEN "remove" ELSE "replace"

NamesListCall(op, name1, name2) ==
  /\ LET r == namesList(used, op, name1, name2)
     IN /\ used' = r.used
        /\ last' = [op |-> OpName(op), m |-> 0, name1 |-> name1,
                    name2 |-> name2, err |-> r.err,
                    before |-> used, after |-> r.used]
  /\ UNCHANGED <<alive, name_, pc, call>>
  /\ UNCHANGED compoundVars

NextReg == \E op \in 1..3, name1 \in Names, name2 \in Names :
  NamesListCall(op, name1, name2)

SpecReg == InitNames /\ [][NextReg]_vars

(***************************************************************************)
(* Concurrent construction: thread t constructs the manifold of storage    *)
(* place t, bound to a state manifold whose control name no live manifold  *)
(* holds and no other thread is constructing.  The storage places above    *)
(* NumThreads hold the manifolds that exist beforehand.                    *)
(***************************************************************************)
Earlier == ManifoldIds \ Threads

InitCons ==
  /\ alive \in SUBSET Earlier
  /\ name_ \in [ManifoldIds -> Names \cup {NoName}]
  /\ \A m \in ManifoldIds : (name_[m] = NoName) <=> (m \notin alive)
  /\ \A m1, m2 \in alive : m1 # m2 => name_[m1] # name_[m2]
  /\ used = {name_[m] : m \in alive}
  /\ pc = [t \in Threads |-> "idle"]
  /\ call = [t \in Threads |-> NoCall]
  /\ last = NoLast
  /\ InitCompound

Constructing(t) == IF pc[t] = "ctor" THEN {name_[call[t].m]} ELSE {}

FreshName(t, S) ==
  /\ ControlName(S) \notin used
  /\ \A t2 \in Threads \ {t} : ControlName(S) \notin Constructing(t2)

CtorFresh(t) == \E S \in StateNames : FreshName(t, S) /\ CtorName(t, t, S)

NextCons == \E t \in Threads : CtorFresh(t) \/ CtorRegister(t)

SpecCons == InitCons /\ [][NextCons]_vars

(***************************************************************************)
(* Properties of the name registry.                                        *)
(***************************************************************************)

\* C1: in every reachable state of a concurrent execution, also one in
\* which a call of another thread is partly done, no two live control
\* manifolds report the same name through getName().
C1_UniqueLiveNames ==
  \A m1, m2 \in alive : m1 # m2 => getName(m1) # getName(m2)

\* C2: once every call made so far has returned, the registry's names are
\* exactly the names of the live manifolds; and a destruction that has just
\* returned did not throw and left the destroyed manifold's name unused.
C2_RegistryIsLiveNames ==
  Quiescent =>
    /\ used = LiveNames
    /\ last.op = "dtor" => (last.err = "none" /\ last.name1 \notin used)

\* a manifold was destroyed while another one lives on
C2_Witness ==
  /\ Quiescent
  /\ last.op = "dtor"
  /\ last.before # {last.name1}
  /\ alive # {}

\* C3: a construction bound to the state manifold S has registered
\* "Control[S]" when that name was free; when the name was registered
\* already it has thrown DuplicateName, no manifold has come to live and the
\* registry is as it was.
C3_Construction ==
  (Quiescent /\ last.op = "ctor") =>
    /\ last.name1 = "Control[" \o last.name2 \o "]"
    /\ IF last.name1 \in last.before
         THEN /\ last.err = "DuplicateName"
              /\ last.m \notin alive
              /\ used = last.before
         ELSE /\ last.err = "none"
              /\ last.m \in alive
              /\ getName(last.m) = last.name1
              /\ used = last.before \cup {last.name1}

\* a construction failed because a live manifold, bound to a state manifold
\* of the same name and never renamed, holds the name
C3_Witness ==
  /\ Quiescent
  /\ last.op = "ctor"
  /\ last.err = "DuplicateName"
  /\ \E m \in alive : getName(m) = "Control[" \o last.name2 \o "]"

\* C4: rename(oldName, newName) with oldName # newName throws UnknownName
\* when oldName is absent (also when newName is present), throws
\* DuplicateName when oldName is present and newName is present, both with
\* the registry unchanged; otherwise the registry is, in the one step of the
\* call, (registry minus oldName) plus newName.
C4_Rename ==
  (last.op = "replace" /\ last.name1 # last.name2) =>
    IF last.name1 \notin last.before
      THEN last.err = "UnknownName" /\ used = last.before
      ELSE IF last.name2 \in last.before
        THEN last.err = "DuplicateName" /\ used = last.before
        ELSE /\ last.err = "none"
             /\ used = (last.before \ {last.name1}) \cup {last.name2}

\* a rename of an absent name to a present one
C4_Witness ==
  /\ last.op = "replace"
  /\ last.name1 # last.name2
  /\ last.name1 \notin last.before
  /\ last.name2 \in last.before
  /\ last.err = "UnknownName"

\* C5: a setName(newName) that has returned: when another live manifold
\* holds newName it has thrown DuplicateName; when it has thrown, getName()
\* is the old name and the registry is as it was; when it has not, getName()
\* is newName, newName is registered and the old name, if another, is not.
C5_SetName ==
  (Quiescent /\ last.op = "setName") =>
    /\ (\E m2 \in alive \ {last.m} : getName(m2) = last.name2)
         => last.err = "DuplicateName"
    /\ last.err # "none" =>
         (getName(last.m) = last.name1 /\ used = last.before)
    /\ last.err = "none" =>
         /\ getName(last.m) = last.name2
         /\ last.name2 \in used
         /\ last.name1 # last.name2 => last.name1 \notin used

\* a setName failed on the name of another live manifold
C5_Witness ==
  /\ Quiescent
  /\ last.op = "setName"
  /\ last.err = "DuplicateName"
  /\ \E m2 \in alive \ {last.m} : getName(m2) = last.name2

\* C6: of threads that construct manifolds under pairwise distinct names
\* that are not registered, none gets DuplicateName, and the name of every
\* manifold so constructed is in the registry, each its own.
C6_NoSpuriousDuplicate ==
  /\ last.op = "ctor" => last.err = "none"
  /\ \A t \in Threads \cap alive : getName(t) \in used
  /\ \A t1, t2 \in Threads \cap alive : t1 # t2 => getName(t1) # getName(t2)
  /\ Cardinality(used) >= Cardinality(Threads \cap alive)

\* every thread has constructed its manifold, next to an earlier one
C6_Witness ==
  /\ Threads \subseteq alive
  /\ Earlier \cap alive # {}
  /\ Quiescent

(***************************************************************************)
(* The compound control manifold, lines 143-279.  One caller makes the     *)
(* calls, each running to its return.                                      *)
(***************************************************************************)

\* The concrete leaf manifolds: their getDimension() and the number of
\* slots their getValueAddressAtIndex() exposes (the base class of lines
\* 115-118 exposes none).
LeafDim(l) == CASE l = 1 -> 2 [] l = 2 -> 1 [] l = 3 -> 3

LeafSlots(l) == CASE l = 1 -> 2 [] l = 2 -> 0 [] l = 3 -> 3

\* "no such slot": the NULL of lines 117 and 278
NULL == <<>>

\* a leaf's getValueAddressAtIndex: the address of its slot `index`
LeafValueAddress(l, index) == IF index < LeafSlots(l) THEN <<index>> ELSE NULL

\* every manifold is constructed, each under a name of its own (line 86)
InitObjects ==
  /\ alive = Objects
  /\ name_ = [m \in Objects |-> ControlName(ToString(m))]
  /\ used = {ControlName(ToString(m)) : m \in Objects}
  /\ pc = [t \in Threads |-> "idle"]
  /\ call = [t \in Threads |-> NoCall]
  /\ last = NoLast

Init == InitObjects /\ InitCompound

\* the manifolds reached from m through components_, m included
RECURSIVE Reach(_)
Reach(m) ==
  IF m \in Leaves THEN {m}
  ELSE {m} \cup UNION {Reach(components_[m][i]) :
                         i \in 1..Len(components_[m])}

RECURSIVE SumLen(_)
SumLen(S) ==
  IF S = {} THEN 0
  ELSE LET c == CHOOSE x \in S : TRUE
       IN Len(components_[c]) + SumLen(S \ {c})

\* the sub-manifolds added so far
TotalChildren == SumLen(Compounds)

\* CompoundControlManifold::getSubManifoldCount, lines 152-155
getSubManifoldCount(c) == componentCount_[c]

\* CompoundControlManifold::getDimension, lines 173-179
RECURSIVE getDimension(_), DimensionLoop(_, _, _)
getDimension(m) ==
  IF m \in Leaves THEN LeafDim(m) ELSE DimensionLoop(m, 0, 0)

DimensionLoop(c, i, dim) ==
  IF i < componentCount_[c]
    THEN DimensionLoop(c, i + 1, dim + getDimension(components_[c][i + 1]))
    ELSE dim

\* a bug: line 145's check forgotten
AddSubManifold_NoLockCheck(c, component) ==
  /\ c \notin Reach(component)
  /\ TotalChildren < MaxAdds
  /\ components_' = [components_ EXCEPT ![c] = Append(@, component)]
  /\ componentCount_' = [componentCount_ EXCEPT ![c] = Len(components_'[c])]
  /\ ret' = [op |-> "addSubManifold", m |-> c, err |-> "none",
             before |-> components_[c], made |-> <<component>>]
  /\ UNCHANGED <<locked_, atLock, controls, outstanding, containers, arrays>>
  /\ UNCHANGED <<namesVars, statePropagation_>>

\* a bug: line 149's refresh of componentCount_ forgotten
AddSubManifold_StaleCount(c, component) ==
  /\ c \notin Reach(component)
  /\ IF locked_[c]
       THEN /\ ret' = [op |-> "addSubManifold", m |-> c,
                       err |-> "LockedManifold",
                       before |-> components_[c], made |-> <<>>]
            /\ UNCHANGED <<components_, componentCount_>>
       ELSE /\ TotalChildren < MaxAdds
            /\ components_' = [components_ EXCEPT ![c] = Append(@, component)]
            /\ componentCount_' = componentCount_
            /\ ret' = [op |-> "addSubManifold", m |-> c, err |-> "none",
                       before |-> components_[c], made |-> <<component>>]
  /\ UNCHANGED <<locked_, atLock, controls, outstanding, containers, arrays>>
  /\ UNCHANGED <<namesVars, statePropagation_>>

\* a bug: the component put at the front of the list
AddSubManifold_AtFront(c, component) ==
  /\ c \notin Reach(component)
  /\ IF locked_[c]
       THEN /\ ret' = [op |-> "addSubManifold", m |-> c,
                       err |-> "LockedManifold",
                       before |-> components_[c], made |-> <<>>]
            /\ UNCHANGED <<components_, componentCount_>>
       ELSE /\ TotalChildren < MaxAdds
            /\ components_' =
                 [components_ EXCEPT ![c] = <<component>> \o @]
            /\ componentCount_' =
                 [componentCount_ EXCEPT ![c] = Len(components_'[c])]
            /\ ret' = [op |-> "addSubManifold", m |-> c, err |-> "none",
                       before |-> components_[c], made |-> <<component>>]
  /\ UNCHANGED <<locked_, atLock, controls, outstanding, containers, arrays>>
  /\ UNCHANGED <<namesVars, statePropagation_>>

\* CompoundControlManifold::addSubManifold, lines 143-150.  A manifold is
\* never made a component of itself or of one of its own components.
AddSubManifold(c, component) ==
  /\ c \notin Reach(component)
  /\ IF locked_[c]
       THEN /\ ret' = [op |-> "addSubManifold", m |-> c,
                       err |-> "LockedManifold",
                       before |-> components_[c], made |-> <<>>]
            /\ UNCHANGED <<components_, componentCount_>>
       ELSE /\ TotalChildren < MaxAdds
            /\ components_' = [components_ EXCEPT ![c] = Append(@, component)]
            /\ componentCount_' =
                 [componentCount_ EXCEPT ![c] = Len(components_'[c])]
            /\ ret' = [op |-> "addSubManifold", m |-> c, err |-> "none",
                       before |-> components_[c], made |-> <<component>>]
  /\ UNCHANGED <<locked_, atLock, controls, outstanding, containers, arrays>>
  /\ UNCHANGED <<namesVars, statePropagation_>>

\* CompoundControlManifold::lock, lines 246-249
Lock(c) ==
  /\ locked_' = [locked_ EXCEPT ![c] = TRUE]
  /\ atLock' = IF atLock[c].locked THEN atLock
               ELSE [atLock EXCEPT ![c] =
                      [locked |-> TRUE, components |-> components_[c],
                       count |-> getSubManifoldCount(c)]]
  /\ ret' = [op |-> "lock", m |-> c, err |-> "none",
             before |-> <<>>, made |-> <<>>]
  /\ UNCHANGED <<components_, componentCount_, controls, outstanding,
                 containers, arrays>>
  /\ UNCHANGED <<namesVars, statePropagation_>>

\* the loop condition of line 265: j <= index
InnerContinue_Strict(j, index) == j < index

InnerContinue(j, index) == j <= index

\* CompoundControlManifold::getValueAddressAtIndex, lines 259-279.  The
\* address of a slot is the place of the component in the control, followed
\* by the address the component's manifold gives.
RECURSIVE getValueAddressAtIndex(_, _), OuterLoop(_, _, _, _),
          InnerLoop(_, _, _, _, _)
getValueAddressAtIndex(m, index) ==
  IF m \in Leaves THEN LeafValueAddress(m, index)
  ELSE OuterLoop(m, 0, 0, index)

OuterLoop(c, i, idx, index) ==
  IF i < componentCount_[c] THEN InnerLoop(c, i, 0, idx, index) ELSE NULL

InnerLoop(c, i, j, idx, index) ==
  IF InnerContinue(j, index)
    THEN LET va == getValueAddressAtIndex(components_[c][i + 1], j)
         IN IF va # NULL
              THEN IF idx = index THEN <<i>> \o va
                   ELSE InnerLoop(c, i, j + 1, idx + 1, index)
              ELSE OuterLoop(c, i + 1, idx, index)
    ELSE OuterLoop(c, i + 1, idx, index)

NextStructure ==
  \/ \E c \in Compounds, component \in Objects : AddSubManifold(c, component)
  \/ \E c \in Compounds : Lock(c)

Spec == Init /\ [][NextStructure]_vars

(***************************************************************************)
(* Compound controls.  A control is the manifold that allocated it,        *)
(* whether lock() had been called on that manifold by then, and,           *)
(* for a CompoundControl, its components array.  An allocation is a `new`  *)
(* of line 183 or 184 or a leaf manifold's allocControl; a call gets       *)
(* through `left` of them and the next one throws.  Nothing in lines       *)
(* 181-188 catches, so the exception leaves every allocControl on the way  *)
(* up at once.                                                             *)
(***************************************************************************)
NoControl == [owner |-> 0, components |-> <<>>, locked |-> FALSE]

\* one allocation: what was allocated and for which manifold
Allocate(st, kind, m) ==
  IF st.left = 0 THEN [st EXCEPT !.ok = FALSE]
  ELSE [st EXCEPT !.left = @ - 1,
                  !.made = Append(@, [kind |-> kind, by |-> m])]

\* a leaf manifold's allocControl: a control of its own, or an exception
LeafAllocControl(l, st) ==
  LET r == Allocate(st, "control", l)
  IN IF r.ok THEN [r EXCEPT !.ctrl = [owner |-> l, components |-> <<>>,
                                      locked |-> FALSE]]
     ELSE r

\* CompoundControlManifold::allocControl, lines 181-188
RECURSIVE allocControl(_, _), AllocLoop(_, _, _, _)
allocControl(m, st) ==
  IF m \in Leaves THEN LeafAllocControl(m, st)
  ELSE LET s1 == Allocate(st, "container", m)
           s2 == IF s1.ok THEN Allocate(s1, "array", m) ELSE s1
       IN IF s2.ok THEN AllocLoop(m, 0, s2, <<>>) ELSE s2

AllocLoop(c, i, st, slots) ==
  IF i < componentCount_[c]
    THEN LET r == allocControl(components_[c][i + 1], st)
         IN IF r.ok THEN AllocLoop(c, i + 1, r, Append(slots, r.ctrl))
            ELSE r
    ELSE [st EXCEPT !.ctrl = [owner |-> c, components |-> slots,
                              locked |-> locked_[c]]]

\* the allocations of a call of allocControl in which none throws
RECURSIVE FullCount(_), FullCountFirst(_, _)
FullCount(m) ==
  IF m \in Leaves THEN 1 ELSE 2 + FullCountFirst(m, componentCount_[m])

FullCountFirst(c, n) ==
  IF n = 0 THEN 0
  ELSE FullCountFirst(c, n - 1) + FullCount(components_[c][n])

\* how many of the allocations `made` are of `kind` for manifold set `by`
CountOf(made, kind, by) ==
  Cardinality({k \in 1..Len(made) : made[k].kind = kind /\ made[k].by \in by})

RECURSIVE SumOutstanding(_)
SumOutstanding(S) ==
  IF S = {} THEN 0
  ELSE LET l == CHOOSE x \in S : TRUE
       IN outstanding[l] + SumOutstanding(S \ {l})

\* the allocations alive
Live == containers + arrays + SumOutstanding(Leaves)

Heap == [outstanding |-> outstanding, containers |-> containers,
         arrays |-> arrays]

AllocControl(c, budget) ==
  /\ Live < MaxLive
  /\ LET r == allocControl(c, [left |-> budget, made |-> <<>>, ok |-> TRUE,
                               ctrl |-> NoControl])
     IN /\ outstanding' = [l \in Leaves |->
                             outstanding[l] + CountOf(r.made, "control", {l})]
        /\ containers' = containers + CountOf(r.made, "container", Compounds)
        /\ arrays' = arrays + CountOf(r.made, "array", Compounds)
        /\ controls' = IF r.ok THEN Append(controls, r.ctrl) ELSE controls
        /\ ret' = [op |-> "allocControl", m |-> c,
                   err |-> IF r.ok THEN "none"
                           ELSE IF Len(r.made) < 2 THEN "bad_alloc"
                           ELSE "ComponentAllocFailed",
                   before |-> Heap, made |-> r.made]
  /\ UNCHANGED <<components_, componentCount_, locked_, atLock>>
  /\ UNCHANGED <<namesVars, statePropagation_>>

\* whether a control has the slots the manifold has components, all the way
\* down: freeControl is called on such controls only
RECURSIVE ShapeMatches(_, _)
ShapeMatches(m, ctrl) ==
  /\ ctrl.owner = m
  /\ m \in Compounds =>
       /\ Len(ctrl.components) = componentCount_[m]
       /\ \A i \in 1..componentCount_[m] :
            ShapeMatches(components_[m][i], ctrl.components[i])

\* CompoundControlManifold::freeControl, lines 190-197: what it releases
RECURSIVE freeControl(_, _), FreeLoop(_, _, _, _)
\* a bug: the loop of lines 193-194 forgotten
FreeLoop_Forgotten(c, i, ctrl, freed) == freed

freeControl(m, ctrl) ==
  IF m \in Leaves THEN <<[kind |-> "control", by |-> m]>>
  ELSE FreeLoop(m, 0, ctrl, <<>>) \o
         <<[kind |-> "array", by |-> m], [kind |-> "container", by |-> m]>>

FreeLoop(c, i, ctrl, freed) ==
  IF i < componentCount_[c]
    THEN FreeLoop(c, i + 1, ctrl,
           freed \o freeControl(components_[c][i + 1], ctrl.components[i + 1]))
    ELSE freed

FreeControl(c, k) ==
  /\ k \in 1..Len(controls)
  /\ ShapeMatches(c, controls[k])
  /\ LET freed == freeControl(c, controls[k])
     IN /\ outstanding' = [l \in Leaves |->
                             outstanding[l] - CountOf(freed, "control", {l})]
        /\ containers' = containers - CountOf(freed, "container", Compounds)
        /\ arrays' = arrays - CountOf(freed, "array", Compounds)
        /\ ret' = [op |-> "freeControl", m |-> c, err |-> "none",
                   before |-> Heap, made |-> <<>>]
  /\ controls' = [j \in 1..(Len(controls) - 1) |->
                    IF j < k THEN controls[j] ELSE controls[j + 1]]
  /\ UNCHANGED <<components_, componentCount_, locked_, atLock>>
  /\ UNCHANGED <<namesVars, statePropagation_>>

NextAlloc ==
  \/ \E c \in Compounds, component \in Objects : AddSubManifold(c, component)
  \/ \E c \in Compounds : Lock(c)
  \/ \E c \in Compounds : \E budget \in 0..FullCount(c) :
       AllocControl(c, budget)
  \/ \E c \in Compounds, k \in 1..MaxLive : FreeControl(c, k)

SpecAlloc == Init /\ [][NextAlloc]_vars

(***************************************************************************)
(* Properties of the compound control manifold.                            *)
(***************************************************************************)

\* C7: once lock() has been called on a compound manifold it stays locked,
\* its child list and getSubManifoldCount() stay what they were at that
\* moment, and an addSubManifold call on it throws LockedManifold.
C7_LockMonotone ==
  /\ \A c \in Compounds : atLock[c].locked =>
       /\ locked_[c]
       /\ components_[c] = atLock[c].components
       /\ getSubManifoldCount(c) = atLock[c].count
  /\ (ret.op = "addSubManifold" /\ atLock[ret.m].locked) =>
       ret.err = "LockedManifold"

\* an addSubManifold was refused on a locked manifold that has components
C7_Witness ==
  /\ ret.op = "addSubManifold"
  /\ ret.err = "LockedManifold"
  /\ atLock[ret.m].count > 0

\* the sum of the current getDimension() of the children of c
RECURSIVE SumOfChildren(_, _)
SumOfChildren(c, n) ==
  IF n = 0 THEN 0
  ELSE SumOfChildren(c, n - 1) + getDimension(components_[c][n])

\* the leaf manifolds below m, with repetitions, in order
RECURSIVE LeavesBelow(_), LeavesBelowFirst(_, _)
LeavesBelow(m) ==
  IF m \in Leaves THEN <<m>> ELSE LeavesBelowFirst(m, Len(components_[m]))

LeavesBelowFirst(c, n) ==
  IF n = 0 THEN <<>>
  ELSE LeavesBelowFirst(c, n - 1) \o LeavesBelow(components_[c][n])

RECURSIVE SumLeafDim(_)
SumLeafDim(ls) ==
  IF ls = <<>> THEN 0 ELSE LeafDim(Head(ls)) + SumLeafDim(Tail(ls))

\* C8: getDimension() of a compound manifold, open or locked, is the sum of
\* the current getDimension() of its children (0 when it has none), hence
\* the sum of the dimensions of the leaf manifolds below it.
C8_DimensionAdditive ==
  \A c \in Compounds :
    /\ getDimension(c) = SumOfChildren(c, Len(components_[c]))
    /\ getDimension(c) = SumLeafDim(LeavesBelow(c))

\* a compound child of a locked compound has just gained a sub-manifold,
\* and the dimension of the locked compound is that of its leaf child and
\* of the new leaf below its compound child
C8_Witness ==
  \E p \in Compounds :
    /\ atLock[p].locked
    /\ Len(components_[p]) = 2
    /\ components_[p][1] \in Leaves
    /\ components_[p][2] \in Compounds
    /\ ret.op = "addSubManifold"
    /\ ret.m = components_[p][2]
    /\ ret.err = "none"
    /\ LeavesBelow(components_[p][2]) = <<3>>
    /\ getDimension(p) = LeafDim(components_[p][1]) + LeafDim(3)

\* the slots of m in order: the slots of its children one after the other,
\* each with the place of the child in front
RECURSIVE SlotList(_), SlotListFirst(_, _)
SlotList(m) ==
  IF m \in Leaves THEN [j \in 1..LeafSlots(m) |-> <<j - 1>>]
  ELSE SlotListFirst(m, Len(components_[m]))

SlotListFirst(c, n) ==
  IF n = 0 THEN <<>>
  ELSE LET sub == SlotList(components_[c][n])
       IN SlotListFirst(c, n - 1) \o
            [j \in 1..Len(sub) |-> <<n - 1>> \o sub[j]]

\* C9: getValueAddressAtIndex(control, f) of a compound manifold is the slot
\* at position f of the concatenation of its children's slot lists for every
\* f below the total, and "no such slot" for every f from the total on.
C9_FlattenedLookup ==
  \A c \in Compounds :
    \A f \in 0..(Len(SlotList(c)) + 1) :
      getValueAddressAtIndex(c, f) =
        IF f < Len(SlotList(c)) THEN SlotList(c)[f + 1] ELSE NULL

\* children with 2, 0 and 3 slots: 0,1 are in child 0, 2,3,4 in child 2
C9_Witness ==
  \E c \in Compounds :
    /\ Len(components_[c]) = 3
    /\ \A i \in 1..3 : components_[c][i] \in Leaves
    /\ LeafSlots(components_[c][1]) = 2
    /\ LeafSlots(components_[c][2]) = 0
    /\ LeafSlots(components_[c][3]) = 3
    /\ getValueAddressAtIndex(c, 1) = <<0, 1>>
    /\ getValueAddressAtIndex(c, 2) = <<2, 0>>
    /\ getValueAddressAtIndex(c, 4) = <<2, 2>>
    /\ getValueAddressAtIndex(c, 5) = NULL

\* C10: when the allocControl of a component throws after components
\* before it were allocated, what the call allocated so far (the controls of
\* the earlier slots, the container and its array) is freed before the
\* exception reaches the caller: no leaf manifold has an outstanding control
\* from that call.
C10_FailedAllocFreesAll ==
  (/\ ret.op = "allocControl"
   /\ ret.err = "ComponentAllocFailed"
   /\ \E k \in 1..Len(ret.made) : ret.made[k].kind = "control") =>
     /\ outstanding = ret.before.outstanding
     /\ containers = ret.before.containers
     /\ arrays = ret.before.arrays


(***************************************************************************)
(* Propagation, lines 130-141 and 232-244.  A state or a control is a      *)
(* value, `val`, or, for a compound one, its `components`; the i-th        *)
(* component of the code is components[i + 1] here.  A propagation         *)
(* function is known by what it is given: the result it writes is the      *)
(* term fn(state, control, duration).  propagate gives the error thrown,   *)
(* the propagate calls entered (its own first) and the invocations of      *)
(* propagation functions made, both in order, and the result state as it   *)
(* leaves it.                                                              *)
(***************************************************************************)
Value(v) == [val |-> v, components |-> <<>>]

RECURSIVE Show(_), ShowFrom(_, _)
\* a state or control in writing
Show(t) ==
  IF t.components = <<>> THEN t.val ELSE "[" \o ShowFrom(t, 1) \o "]"

ShowFrom(t, i) ==
  IF i = Len(t.components) THEN Show(t.components[i])
  ELSE Show(t.components[i]) \o " " \o ShowFrom(t, i + 1)

\* what the propagation function fn writes to the result state
Apply(fn, state, control, duration) ==
  Value(fn \o "(" \o Show(state) \o "," \o Show(control) \o ","
           \o ToString(duration) \o ")")

\* one invocation of a propagation function, with what it was given
Invocation(fn, state, control, duration, result) ==
  [fn |-> fn, state |-> state, control |-> control, duration |-> duration,
   result |-> result]

\* one call of m.propagate, with what it was given
Entry(m, state, control, duration, result) ==
  [m |-> m, state |-> state, control |-> control, duration |-> duration,
   result |-> result]

\* a bug: line 132's test forgotten, the empty function called as if set
BasePropagate_Unchecked(m, state, control, duration, result) ==
  [err |-> "none",
   entered |-> <<Entry(m, state, control, duration, result)>>,
   calls |-> <<Invocation(statePropagation_[m], state, control, duration,
                          result)>>,
   result |-> Apply(statePropagation_[m], state, control, duration)]

\* ControlManifold::propagate, lines 130-136
BasePropagate(m, state, control, duration, result) ==
  IF statePropagation_[m] # NoFn
    THEN [err |-> "none",
          entered |-> <<Entry(m, state, control, duration, result)>>,
          calls |-> <<Invocation(statePropagation_[m], state, control,
                                 duration, result)>>,
          result |-> Apply(statePropagation_[m], state, control, duration)]
    ELSE [err |-> "UnconfiguredPropagation",
          entered |-> <<Entry(m, state, control, duration, result)>>,
          calls |-> <<>>, result |-> result]

\* CompoundControlManifold::propagate, lines 232-244; a concrete manifold
\* propagates as ControlManifold does
RECURSIVE propagate(_, _, _, _, _), PropagateLoop(_, _, _, _, _, _)
\* a bug: line 243 written with components[0] for the result state
RECURSIVE PropagateLoop_FirstSlot(_, _, _, _, _, _)
PropagateLoop_FirstSlot(c, i, state, control, duration, acc) ==
  IF i < componentCount_[c]
    THEN LET r == propagate(components_[c][i + 1], state.components[i + 1],
                            control.components[i + 1], duration,
                            acc.result.components[1])
             out == [err |-> r.err, entered |-> acc.entered \o r.entered,
                     calls |-> acc.calls \o r.calls,
                     result |-> [acc.result EXCEPT !.components[1] = r.result]]
         IN IF r.err # "none" THEN out
            ELSE PropagateLoop_FirstSlot(c, i + 1, state, control, duration,
                                         out)
    ELSE acc

\* a bug: the loop of lines 241-243 going on after a component's propagate
\* has thrown, the exception kept for the end
RECURSIVE PropagateLoop_GoesOn(_, _, _, _, _, _)
PropagateLoop_GoesOn(c, i, state, control, duration, acc) ==
  IF i < componentCount_[c]
    THEN LET r == propagate(components_[c][i + 1], state.components[i + 1],
                            control.components[i + 1], duration,
                            acc.result.components[i + 1])
             out == [err |-> IF acc.err # "none" THEN acc.err ELSE r.err,
                     entered |-> acc.entered \o r.entered,
                     calls |-> acc.calls \o r.calls,
                     result |-> [acc.result EXCEPT
                                   !.components[i + 1] = r.result]]
         IN PropagateLoop_GoesOn(c, i + 1, state, control, duration, out)
    ELSE acc

\* a bug: line 234's test forgotten, the components always propagated
propagate_NoOverride(m, state, control, duration, result) ==
  IF m \in Leaves
    THEN BasePropagate(m, state, control, duration, result)
    ELSE PropagateLoop(m, 0, state, control, duration,
                       [err |-> "none",
                        entered |-> <<Entry(m, state, control, duration,
                                            result)>>,
                        calls |-> <<>>, result |-> result])

propagate(m, state, control, duration, result) ==
  IF m \in Leaves \/ statePropagation_[m] # NoFn
    THEN BasePropagate(m, state, control, duration, result)
    ELSE PropagateLoop(m, 0, state, control, duration,
                       [err |-> "none",
                        entered |-> <<Entry(m, state, control, duration,
                                            result)>>,
                        calls |-> <<>>, result |-> result])

\* the loop of lines 241-243 from component i on; an exception thrown by a
\* component's propagate ends the call
PropagateLoop(c, i, state, control, duration, acc) ==
  IF i < componentCount_[c]
    THEN LET r == propagate(components_[c][i + 1], state.components[i + 1],
                            control.components[i + 1], duration,
                            acc.result.components[i + 1])
             out == [err |-> r.err, entered |-> acc.entered \o r.entered,
                     calls |-> acc.calls \o r.calls,
                     result |-> [acc.result EXCEPT
                                   !.components[i + 1] = r.result]]
         IN IF r.err # "none" THEN out
            ELSE PropagateLoop(c, i + 1, state, control, duration, out)
    ELSE acc

\* ControlManifold::setPropagationFunction, lines 138-141
SetPropagationFunction(m, fn) ==
  /\ statePropagation_' = [statePropagation_ EXCEPT ![m] = fn]
  /\ UNCHANGED <<components_, componentCount_, locked_, atLock, controls,
                 outstanding, containers, arrays, ret>>
  /\ UNCHANGED namesVars

\* addSubManifold, where few sub-manifolds are enough
AddPart(c, component) ==
  /\ TotalChildren < MaxParts
  /\ AddSubManifold(c, component)

NextProp ==
  \/ \E c \in Compounds, component \in Objects : AddPart(c, component)
  \/ \E m \in Objects, fn \in Fns \cup {NoFn} : SetPropagationFunction(m, fn)

SpecProp == Init /\ [][NextProp]_vars

\* the durations propagate is called with
Durations == {-1, 1}

\* a state (tag "x"), control ("u") or result state ("r") of manifold m: a
\* concrete manifold's is a value of its own, a compound one's has a
\* component for each of its sub-manifolds
RECURSIVE Input(_, _, _)
Input(m, tag, at) ==
  IF m \in Leaves THEN Value(tag \o at)
  ELSE [val |-> "",
        components |-> [i \in 1..Len(components_[m]) |->
                          Input(components_[m][i], tag,
                                at \o "." \o ToString(i - 1))]]

\* m.propagate on the state, control and result state of m
Propagated(m, duration) ==
  propagate(m, Input(m, "x", ""), Input(m, "u", ""), duration,
            Input(m, "r", ""))

\* C11: propagate of a manifold that does not override it (a concrete
\* manifold) invokes the propagation function that was set, once, with the
\* state, control, duration and result it was given, and returns with what
\* the function wrote; with no function set it fails with
\* UnconfiguredPropagationError, invokes nothing and leaves the result state
\* as it was.
C11_BasePropagate ==
  \A m \in Leaves, d \in Durations :
    LET r == Propagated(m, d)
        fn == statePropagation_[m]
    IN IF fn \in Fns
         THEN /\ r.err = "none"
              /\ Len(r.entered) = 1
              /\ Len(r.calls) = 1
              /\ r.calls[1].fn = fn
              /\ r.calls[1].state = Input(m, "x", "")
              /\ r.calls[1].control = Input(m, "u", "")
              /\ r.calls[1].duration = d
              /\ r.calls[1].result = Input(m, "r", "")
              /\ r.result = Apply(fn, Input(m, "x", ""), Input(m, "u", ""), d)
         ELSE /\ r.err = "UnconfiguredPropagation"
              /\ Len(r.entered) = 1
              /\ r.calls = <<>>
              /\ r.result = Input(m, "r", "")

\* a concrete manifold with a function set and one with none, both propagated
C11_Witness ==
  /\ \E m \in Leaves : Propagated(m, 1).err = "UnconfiguredPropagation"
  /\ \E m \in Leaves : /\ Propagated(m, 1).err = "none"
                       /\ Propagated(m, 1).result = Value("f(x,u,1)")


\* C12: propagate of a compound manifold that has a propagation function of
\* its own invokes that function, once, on the whole state, control and
\* result state, and no propagation function of a component, however many
\* components there are and whether or not they have functions set.
C12_CompoundOverride ==
  \A c \in Compounds, d \in Durations :
    statePropagation_[c] \in Fns =>
      LET r == Propagated(c, d)
      IN /\ r.err = "none"
         /\ r.entered = <<Entry(c, Input(c, "x", ""), Input(c, "u", ""), d,
                                Input(c, "r", ""))>>
         /\ r.calls = <<Invocation(statePropagation_[c], Input(c, "x", ""),
                                   Input(c, "u", ""), d, Input(c, "r", ""))>>
         /\ r.result = Apply(statePropagation_[c], Input(c, "x", ""),
                             Input(c, "u", ""), d)

\* a compound manifold of two components, one with a function set and one
\* with none, propagated by its own function
C12_Witness ==
  \E c \in Compounds :
    /\ statePropagation_[c] \in Fns
    /\ Len(components_[c]) = 2
    /\ statePropagation_[components_[c][1]] \in Fns
    /\ statePropagation_[components_[c][2]] = NoFn
    /\ Propagated(c, 1).result = Value("f([x.0 x.1],[u.0 u.1],1)")


\* components_[c][i + 1].propagate on the i-th components of the state,
\* control and result state of c, called on its own
ChildPropagated(c, i, duration) ==
  propagate(components_[c][i + 1], Input(c, "x", "").components[i + 1],
            Input(c, "u", "").components[i + 1], duration,
            Input(c, "r", "").components[i + 1])

RECURSIVE EnteredFrom(_, _, _), CallsFrom(_, _, _)
\* the propagate calls that the components from the i-th on enter, in order
EnteredFrom(c, i, duration) ==
  IF i < Len(components_[c])
    THEN ChildPropagated(c, i, duration).entered
           \o EnteredFrom(c, i + 1, duration)
    ELSE <<>>

CallsFrom(c, i, duration) ==
  IF i < Len(components_[c])
    THEN ChildPropagated(c, i, duration).calls \o CallsFrom(c, i + 1, duration)
    ELSE <<>>

\* C13: propagate of a compound manifold with no propagation function of its
\* own, where every component's propagate returns: the components'
\* propagate are called once each, in the order of the indices, the i-th
\* with the i-th components of the state, control and result state and with
\* the same duration, and the i-th component of the result state is what
\* the i-th component's propagate alone makes of it.
C13_CompoundPropagate ==
  \A c \in Compounds, d \in Durations :
    /\ statePropagation_[c] = NoFn
    /\ \A i \in 0..(Len(components_[c]) - 1) :
         ChildPropagated(c, i, d).err = "none"
    => LET r == Propagated(c, d)
           k == getSubManifoldCount(c)
       IN /\ r.err = "none"
          /\ r.entered = <<Entry(c, Input(c, "x", ""), Input(c, "u", ""), d,
                                 Input(c, "r", ""))>>
                           \o EnteredFrom(c, 0, d)
          /\ r.calls = CallsFrom(c, 0, d)
          /\ Len(r.result.components) = k
          /\ \A i \in 0..(k - 1) :
               /\ ChildPropagated(c, i, d).entered[1] =
                    Entry(components_[c][i + 1],
                          Input(c, "x", "").components[i + 1],
                          Input(c, "u", "").components[i + 1], d,
                          Input(c, "r", "").components[i + 1])
               /\ r.result.components[i + 1] = ChildPropagated(c, i, d).result

\* a compound manifold of two different components has propagated both, the
\* first before the second
C13_Witness ==
  \E c \in Compounds :
    /\ statePropagation_[c] = NoFn
    /\ Len(components_[c]) = 2
    /\ components_[c][1] # components_[c][2]
    /\ Propagated(c, 1).err = "none"
    /\ Propagated(c, 1).result.components =
         <<Value("f(x.0,u.0,1)"), Value("f(x.1,u.1,1)")>>
    /\ Len(Propagated(c, 1).entered) = 3


(***************************************************************************)
(* canPropagateBackward, lines 110-113 and 251-257.                        *)
(***************************************************************************)
\* ControlManifold::canPropagateBackward, lines 110-113
BaseCanPropagateBackward == TRUE

\* the answer of the concrete manifolds: the second one overrides
\* canPropagateBackward and says no, the others inherit the base's answer
LeafCanPropagateBackward(l) ==
  IF l = 2 THEN FALSE ELSE BaseCanPropagateBackward

RECURSIVE canPropagateBackward(_), BackwardLoop(_, _)
\* a bug: only the first component asked
BackwardLoop_FirstOnly(c, i) ==
  IF i < componentCount_[c]
    THEN canPropagateBackward(components_[c][1])
    ELSE TRUE

\* CompoundControlManifold::canPropagateBackward, lines 251-257
canPropagateBackward(m) ==
  IF m \in Leaves THEN LeafCanPropagateBackward(m) ELSE BackwardLoop(m, 0)

\* the loop of lines 253-255 from component i on
BackwardLoop(c, i) ==
  IF i < componentCount_[c]
    THEN IF ~canPropagateBackward(components_[c][i + 1]) THEN FALSE
         ELSE BackwardLoop(c, i + 1)
    ELSE TRUE

\* C14: canPropagateBackward of a compound manifold is true exactly when
\* every one of its components, as they are when it is called, answers true
\* (so it is true with no components, and false with a component that
\* answers false at any place of the list); a manifold that does not
\* override the base's canPropagateBackward answers true.
C14_BackwardConjunction ==
  /\ \A c \in Compounds :
       /\ canPropagateBackward(c) <=>
            \A i \in 1..Len(components_[c]) :
              canPropagateBackward(components_[c][i])
       /\ canPropagateBackward(c) <=>
            \A l \in Reach(c) \cap Leaves : LeafCanPropagateBackward(l)
       /\ components_[c] = <<>> => canPropagateBackward(c)
  /\ \A l \in Leaves \ {2} : canPropagateBackward(l)

\* a compound manifold answered true while its component, a compound one,
\* was empty, and answers false now that this component was given a
\* manifold that answers false, at the second place of its list
C14_Witness ==
  \E c \in Compounds, n \in Compounds :
    /\ components_[c] = <<n>>
    /\ Len(components_[n]) = 2
    /\ canPropagateBackward(components_[n][1])
    /\ ~canPropagateBackward(components_[n][2])
    /\ ret.op = "addSubManifold" /\ ret.m = n /\ ret.err = "none"
    /\ ~canPropagateBackward(c)


(***************************************************************************)
(* setup, lines 106-108 and 298-303, and the copying and comparing of      *)
(* controls, lines 199-215, on manifolds built of few sub-manifolds.       *)
(***************************************************************************)
\* ControlManifold::setup, lines 106-108: nothing is done; the step is
\* known by the manifold it is run on
BaseSetup(m) == <<m>>

RECURSIVE setup(_), SetupLoop(_, _)
\* a bug: the base's setup run before the components'
setup_BaseFirst(m) ==
  IF m \in Leaves THEN BaseSetup(m) ELSE BaseSetup(m) \o SetupLoop(m, 0)

\* CompoundControlManifold::setup, lines 298-303: the base setup steps
\* run, in order; a concrete manifold's setup is the base's
setup(m) ==
  IF m \in Leaves THEN BaseSetup(m) ELSE SetupLoop(m, 0) \o BaseSetup(m)

\* the loop of lines 300-301 from component i on
SetupLoop(c, i) ==
  IF i < componentCount_[c]
    THEN setup(components_[c][i + 1]) \o SetupLoop(c, i + 1)
    ELSE <<>>

\* a call of setup on manifold m
Setup(m) ==
  /\ ret' = [op |-> "setup", m |-> m, err |-> "none",
             before |-> <<components_, componentCount_, locked_, name_, used>>,
             made |-> setup(m)]
  /\ UNCHANGED <<components_, componentCount_, locked_, atLock, controls,
                 outstanding, containers, arrays, statePropagation_>>
  /\ UNCHANGED namesVars

NextUse ==
  \/ \E c \in Compounds, component \in Objects : AddPart(c, component)
  \/ \E c \in Compounds : Lock(c)
  \/ \E m \in Objects : Setup(m)

SpecUse == Init /\ [][NextUse]_vars

\* the values a concrete manifold's control takes
ControlValues == {"0", "1"}

\* copyControl and equalControls of the concrete manifolds: the value is
\* copied, the values are compared
LeafCopyControl(l, destination, source) == source

LeafEqualControls(l, control1, control2) == control1.val = control2.val

RECURSIVE copyControl(_, _, _), CopyLoop(_, _, _, _)
\* CompoundControlManifold::copyControl, lines 199-205: the destination as
\* the call leaves it (the source is const and is only read)
copyControl(m, destination, source) ==
  IF m \in Leaves THEN LeafCopyControl(m, destination, source)
  ELSE CopyLoop(m, 0, destination, source)

\* the loop of lines 203-204 from component i on
CopyLoop(c, i, destination, source) ==
  IF i < componentCount_[c]
    THEN CopyLoop(c, i + 1,
                  [destination EXCEPT !.components[i + 1] =
                     copyControl(components_[c][i + 1],
                                 destination.components[i + 1],
                                 source.components[i + 1])],
                  source)
    ELSE destination

RECURSIVE equalControls(_, _, _), EqualLoop(_, _, _, _)
\* a bug: the loop of lines 211-213 left at the first component
EqualLoop_FirstOnly(c, i, control1, control2) ==
  IF i < componentCount_[c]
    THEN equalControls(components_[c][1], control1.components[1],
                       control2.components[1])
    ELSE TRUE

\* CompoundControlManifold::equalControls, lines 207-215
equalControls(m, control1, control2) ==
  IF m \in Leaves THEN LeafEqualControls(m, control1, control2)
  ELSE EqualLoop(m, 0, control1, control2)

\* the loop of lines 211-213 from component i on
EqualLoop(c, i, control1, control2) ==
  IF i < componentCount_[c]
    THEN IF ~equalControls(components_[c][i + 1], control1.components[i + 1],
                           control2.components[i + 1])
           THEN FALSE
           ELSE EqualLoop(c, i + 1, control1, control2)
    ELSE TRUE

RECURSIVE ControlsOf(_), ComponentsFrom(_, _)
\* the controls that manifold m allocates, with every value they can hold
ControlsOf(m) ==
  IF m \in Leaves THEN {Value(v) : v \in ControlValues}
  ELSE {[val |-> "", components |-> s] : s \in ComponentsFrom(m, 1)}

\* the components arrays of c's controls from place i on
ComponentsFrom(c, i) ==
  IF i > Len(components_[c]) THEN {<<>>}
  ELSE {<<first>> \o rest : first \in ControlsOf(components_[c][i]),
                            rest \in ComponentsFrom(c, i + 1)}

\* control c of manifold m with the value of one slot changed
ChangedInOneSlot(m, c) ==
  UNION {{[c EXCEPT !.components[i] = v] :
            v \in ControlsOf(components_[m][i]) \ {c.components[i]}} :
         i \in 1..Len(c.components)}

\* C15: for controls c and c2 of one compound manifold whose concrete
\* sub-manifolds copy and compare values: after copyControl(c2, c),
\* equalControls(c2, c) is true; it is false once the value of a single
\* slot of c is changed; and equalControls is true exactly when the
\* sub-manifold's equalControls holds for every slot 0..k-1.
C15_CopyThenEqual ==
  \A m \in Compounds :
    \A c \in ControlsOf(m), c2 \in ControlsOf(m) :
      LET copied == copyControl(m, c2, c)
      IN /\ equalControls(m, copied, c)
         /\ copied \in ControlsOf(m)
         /\ \A changed \in ChangedInOneSlot(m, c) :
              ~equalControls(m, copied, changed)
         /\ equalControls(m, c2, c) <=>
              \A i \in 0..(getSubManifoldCount(m) - 1) :
                equalControls(components_[m][i + 1], c2.components[i + 1],
                              c.components[i + 1])

\* a compound manifold of two sub-manifolds, whose controls have two
\* slots: a copy makes two unequal controls equal, a change of the second
\* slot alone makes them unequal again
C15_Witness ==
  \E m \in Compounds :
    /\ Len(components_[m]) = 2
    /\ components_[m][1] # components_[m][2]
    /\ \E c \in ControlsOf(m), c2 \in ControlsOf(m) :
         /\ ~equalControls(m, c2, c)
         /\ equalControls(m, copyControl(m, c2, c), c)
         /\ \E changed \in ChangedInOneSlot(m, c) :
              /\ changed.components[1] = c.components[1]
              /\ ~equalControls(m, copyControl(m, c2, c), changed)


\* controls allocated and freed on manifolds built of few sub-manifolds
NextOwn ==
  \/ \E c \in Compounds, component \in Objects : AddPart(c, component)
  \/ \E c \in Compounds : \E budget \in 0..FullCount(c) :
       AllocControl(c, budget)
  \/ \E c \in Compounds, k \in 1..MaxLive : FreeControl(c, k)

SpecOwn == Init /\ [][NextOwn]_vars

\* how many times manifold x is met below m, m included, going through
\* the components
RECURSIVE Occurrences(_, _), OccurrencesFirst(_, _, _)
Occurrences(m, x) ==
  (IF m = x THEN 1 ELSE 0) +
  (IF m \in Leaves THEN 0 ELSE OccurrencesFirst(m, x, Len(components_[m])))

OccurrencesFirst(c, x, n) ==
  IF n = 0 THEN 0
  ELSE OccurrencesFirst(c, x, n - 1) + Occurrences(components_[c][n], x)

RECURSIVE SumOccurrences(_, _)
SumOccurrences(m, S) ==
  IF S = {} THEN 0
  ELSE LET x == CHOOSE y \in S : TRUE
       IN Occurrences(m, x) + SumOccurrences(m, S \ {x})

\* C16: allocControl of a compound manifold with k sub-manifolds returns a
\* control of k slots, the i-th allocated by the i-th sub-manifold, and has
\* allocated one control per sub-manifold met below it, one container and
\* one array per compound manifold, and no more; freeControl of such a
\* control, the components being what they were, releases exactly that: each
\* slot once, by the sub-manifold that allocated it, then the array and the
\* container.  So what is allocated and not freed is never negative and is
\* nothing once a control allocated with nothing outstanding is freed.
C16_OwnershipBalance ==
  /\ (ret.op = "allocControl" /\ ret.err = "none") =>
       LET ctrl == controls[Len(controls)]
       IN /\ ctrl.owner = ret.m
          /\ Len(ctrl.components) = getSubManifoldCount(ret.m)
          /\ \A i \in 1..Len(ctrl.components) :
               /\ ctrl.components[i].owner = components_[ret.m][i]
               /\ ShapeMatches(components_[ret.m][i], ctrl.components[i])
          /\ \A l \in Leaves :
               outstanding[l] =
                 ret.before.outstanding[l] + Occurrences(ret.m, l)
          /\ containers =
               ret.before.containers + SumOccurrences(ret.m, Compounds)
          /\ arrays = ret.before.arrays + SumOccurrences(ret.m, Compounds)
  /\ ret.op = "freeControl" =>
       /\ ret.err = "none"
       /\ \A l \in Leaves :
            outstanding[l] = ret.before.outstanding[l] - Occurrences(ret.m, l)
       /\ containers =
            ret.before.containers - SumOccurrences(ret.m, Compounds)
       /\ arrays = ret.before.arrays - SumOccurrences(ret.m, Compounds)
  /\ \A l \in Leaves : outstanding[l] >= 0
  /\ containers >= 0 /\ arrays >= 0
  /\ Live >= Len(controls)

\* a control of two slots was allocated with nothing outstanding and has
\* been freed: nothing is outstanding
C16_Witness ==
  /\ ret.op = "freeControl"
  /\ Len(components_[ret.m]) = 2
  /\ ret.before.containers = 1
  /\ ret.before.arrays = 1
  /\ \E l \in Leaves, n \in Leaves :
       l # n /\ ret.before.outstanding[l] = 1 /\ ret.before.outstanding[n] = 1
  /\ controls = <<>>
  /\ Live = 0


\* the base setup steps that the setup of the components of c runs, from
\* the i-th component on
RECURSIVE ChildSetupsFrom(_, _)
ChildSetupsFrom(c, i) ==
  IF i < Len(components_[c])
    THEN setup(components_[c][i + 1]) \o ChildSetupsFrom(c, i + 1)
    ELSE <<>>

\* C17: setup() of a compound manifold runs the setup() of each of its
\* sub-manifolds, in the order of the list and each as that sub-manifold's
\* own setup() does it, and its own base setup step after them all; a call
\* of setup() leaves the child lists, the counts, the locks, the names and
\* the registry as they were, however often and on whichever manifold it
\* is made.
C17_SetupOrder ==
  ret.op = "setup" =>
    /\ ret.err = "none"
    /\ ret.made[Len(ret.made)] = ret.m
    /\ \A k \in 1..(Len(ret.made) - 1) : ret.made[k] \in Reach(ret.m)
    /\ ret.m \in Compounds =>
         /\ ret.made = ChildSetupsFrom(ret.m, 0) \o <<ret.m>>
         /\ Len(ret.made) = 1 + SumOccurrences(ret.m, Reach(ret.m) \ {ret.m})
         /\ \A i \in 1..Len(components_[ret.m]) :
              \E k \in 1..(Len(ret.made) - 1) :
                ret.made[k] = components_[ret.m][i]
    /\ ret.m \in Leaves => ret.made = <<ret.m>>
    /\ <<components_, componentCount_, locked_, name_, used>> = ret.before

\* setup() of a locked compound manifold whose sub-manifold is a compound
\* one with a sub-manifold of its own: three base setup steps, the
\* innermost first
C17_Witness ==
  /\ ret.op = "setup"
  /\ ret.m \in Compounds
  /\ locked_[ret.m]
  /\ Len(ret.made) = 3
  /\ ret.made[1] \in Leaves
  /\ ret.made[2] \in Compounds
  /\ ret.made[3] = ret.m


(***************************************************************************)
(* getSubManifold, lines 157-171: the manifold returned, or the exception  *)
(* thrown.                                                                 *)
(***************************************************************************)
Found(m) == [err |-> "none", manifold |-> m]

NotFound == [err |-> "UnknownSubManifold", manifold |-> 0]

\* a bug: the last index refused
getSubManifold_Short(c, index) ==
  IF componentCount_[c] > index + 1 THEN Found(components_[c][index + 1])
  ELSE NotFound

\* CompoundControlManifold::getSubManifold(const unsigned int index),
\* lines 157-163
getSubManifold(c, index) ==
  IF componentCount_[c] > index THEN Found(components_[c][index + 1])
  ELSE NotFound

\* CompoundControlManifold::getSubManifold(const std::string &name),
\* lines 165-171: the loop from component i on
RECURSIVE NameLoop(_, _, _)
NameLoop(c, i, name) ==
  IF i < componentCount_[c]
    THEN IF getName(components_[c][i + 1]) = name
           THEN Found(components_[c][i + 1])
           ELSE NameLoop(c, i + 1, name)
    ELSE NotFound

getSubManifoldByName(c, name) == NameLoop(c, 0, name)

\* the least of a set of numbers
Least(S) == CHOOSE i \in S : \A j \in S : i <= j

\* C18: getSubManifold(index) returns the sub-manifold at that place for
\* every index below getSubManifoldCount() and throws UnknownSubManifold
\* for every other index (so for every index when there are no
\* sub-manifolds); getSubManifold(name) returns the first sub-manifold of
\* the list whose name is `name` and throws UnknownSubManifold when there
\* is none.
C18_SubManifoldLookup ==
  \A c \in Compounds :
    /\ \A index \in 0..(MaxAdds + 1) :
         getSubManifold(c, index) =
           IF index < getSubManifoldCount(c)
             THEN Found(components_[c][index + 1])
             ELSE NotFound
    /\ \A name \in {getName(m) : m \in Objects} \cup {"Control[]"} :
         LET at == {i \in 1..Len(components_[c]) :
                      getName(components_[c][i]) = name}
         IN getSubManifoldByName(c, name) =
              IF at = {} THEN NotFound ELSE Found(components_[c][Least(at)])

\* a compound manifold of two sub-manifolds, the last found by its index
\* and by its name and nothing found past it or under the name of a
\* manifold that is not in the list
C18_Witness ==
  \E c \in Compounds :
    /\ Len(components_[c]) = 2
    /\ components_[c][2] # components_[c][1]
    /\ getSubManifold(c, 1) = Found(components_[c][2])
    /\ getSubManifold(c, 2) = NotFound
    /\ getSubManifoldByName(c, getName(components_[c][2])) =
         Found(components_[c][2])
    /\ getSubManifoldByName(c, getName(c)) = NotFound


(***************************************************************************)
(* More properties of the name registry.                                   *)
(***************************************************************************)

\* C19: namesList(3, name, name) throws nothing and leaves the registry as
\* it is, whether the name is registered or not; so a setName of a manifold
\* to the name it has returns without an exception, and the registry and
\* the name of the manifold are what they were.
C19_SameNameRename ==
  /\ \A name \in Names :
       namesList(used, 3, name, name) = [used |-> used, err |-> "none"]
  /\ (Quiescent /\ last.op = "setName" /\ last.name1 = last.name2) =>
       /\ last.err = "none"
       /\ used = last.before
       /\ getName(last.m) = last.name1

\* a manifold was given the name it had, while one name is registered and
\* another one is not
C19_Witness ==
  /\ Quiescent
  /\ last.op = "setName"
  /\ last.name1 = last.name2
  /\ last.err = "none"
  /\ last.name1 \in used
  /\ \E name \in Names : name \notin used


(***************************************************************************)
(* More properties of the child list.                                      *)
(***************************************************************************)

\* C20: addSubManifold on a compound manifold that is not locked throws
\* nothing, puts the component at the index that getSubManifoldCount() was
\* before the call, after the components there were, makes the count one
\* more, and leaves the names and the registry alone, also when the
\* component is already in this or in another compound manifold; and
\* getSubManifoldCount() is always the length of the child list.
C20_AddAppends ==
  /\ \A c \in Compounds : getSubManifoldCount(c) = Len(components_[c])
  /\ (ret.op = "addSubManifold" /\ ~locked_[ret.m]) => ret.err = "none"
  /\ (ret.op = "addSubManifold" /\ ret.err = "none") =>
       /\ getSubManifoldCount(ret.m) = Len(ret.before) + 1
       /\ getSubManifold(ret.m, Len(ret.before)) = Found(ret.made[1])
       /\ \A index \in 0..(Len(ret.before) - 1) :
            getSubManifold(ret.m, index) = Found(ret.before[index + 1])
       /\ name_ = [m \in Objects |-> ControlName(ToString(m))]
       /\ used = {getName(m) : m \in Objects}
       /\ Cardinality(used) = Cardinality(Objects)

\* a manifold that is a component of this compound manifold already, and of
\* another one, was added to it once more, at index 1
C20_Witness ==
  /\ ret.op = "addSubManifold"
  /\ ret.err = "none"
  /\ ret.before = ret.made
  /\ getSubManifoldCount(ret.m) = 2
  /\ \E c \in Compounds \ {ret.m} : components_[c] = ret.made


(***************************************************************************)
(* The slots of a control that a compound manifold's calls read, lines     *)
(* 190-222.  freeControl, copyControl, equalControls and nullControl run   *)
(* the same loop: for i below componentCount_, the call of components_[i]  *)
(* on ccontrol->components[i].  Nothing compares componentCount_ with the  *)
(* length of the array; a read past its end is undefined behaviour, and    *)
(* the walk is followed up to that read.                                   *)
(***************************************************************************)
Access(c, i, ctrl) == [by |-> c, index |-> i, slots |-> Len(ctrl.components)]

InBounds(a) == a.index < a.slots

\* the loop condition of lines 192, 203, 211 and 219: i < componentCount_
AccessContinue_OneMore(c, i) == i <= componentCount_[c]

AccessContinue(c, i) == i < componentCount_[c]

RECURSIVE Accesses(_, _), AccessLoop(_, _, _, _)
\* the reads of components[i] made by a call of m on control ctrl, in order
Accesses(m, ctrl) ==
  IF m \in Leaves THEN <<>> ELSE AccessLoop(m, 0, ctrl, <<>>)

AccessLoop(c, i, ctrl, read) ==
  IF AccessContinue(c, i)
    THEN IF InBounds(Access(c, i, ctrl))
           THEN AccessLoop(c, i + 1, ctrl,
                  Append(read, Access(c, i, ctrl))
                    \o Accesses(components_[c][i + 1], ctrl.components[i + 1]))
           ELSE Append(read, Access(c, i, ctrl))
    ELSE read

\* CompoundControlManifold::nullControl, lines 217-222, on a control that
\* manifold c allocated.  With a read past the end of an array the call may
\* return as if nothing had happened or end in a fault.
NullControl(c, k, outcome) ==
  /\ k \in 1..Len(controls)
  /\ controls[k].owner = c
  /\ LET read == Accesses(c, controls[k])
     IN /\ outcome = "fault" => \E j \in 1..Len(read) : ~InBounds(read[j])
        /\ ret' = [op |-> "nullControl", m |-> c, err |-> outcome,
                   before |-> controls[k], made |-> read]
  /\ UNCHANGED <<components_, componentCount_, locked_, atLock, controls,
                 outstanding, containers, arrays, statePropagation_>>
  /\ UNCHANGED namesVars

\* manifolds of few sub-manifolds built and locked, controls allocated and
\* used
NextShape ==
  \/ \E c \in Compounds, component \in Objects : AddPart(c, component)
  \/ \E c \in Compounds : Lock(c)
  \/ \E c \in Compounds : AllocControl(c, FullCount(c))
  \/ \E c \in Compounds, k \in 1..MaxLive, outcome \in {"none", "fault"} :
       NullControl(c, k, outcome)

SpecShape == Init /\ [][NextShape]_vars

\* the compound controls in control ctrl, ctrl included
RECURSIVE CompoundControlsIn(_)
CompoundControlsIn(ctrl) ==
  IF ctrl.owner \in Leaves THEN {}
  ELSE {ctrl} \cup UNION {CompoundControlsIn(ctrl.components[i]) :
                            i \in 1..Len(ctrl.components)}

\* a control allocated after lock() was called on its manifold; and one all
\* of whose compound controls are such
AfterLock(ctrl) == ctrl.locked

AfterLockAllThrough(ctrl) == \A x \in CompoundControlsIn(ctrl) : x.locked

\* C21 as stated: a compound control allocated by a compound manifold after
\* lock() keeps as many slots as the manifold has sub-manifolds, so every
\* slot read by a call of that manifold on it, nullControl among them,
\* exists.
C21_ShapeAfterLock ==
  /\ \A k \in 1..Len(controls) :
       AfterLock(controls[k]) =>
         /\ Len(controls[k].components) =
              getSubManifoldCount(controls[k].owner)
         /\ \A j \in 1..Len(Accesses(controls[k].owner, controls[k])) :
              InBounds(Accesses(controls[k].owner, controls[k])[j])
  /\ (ret.op = "nullControl" /\ AfterLock(ret.before)) =>
       /\ ret.err = "none"
       /\ \A j \in 1..Len(ret.made) : InBounds(ret.made[j])

\* C21, amended: every compound control allocated after lock() was called
\* on its manifold, be it a component of another control, keeps as many
\* slots as that manifold has sub-manifolds, and the loop of that manifold
\* reads existing slots of it; every slot read by a call on a control
\* exists when all the compound manifolds below had been locked as well
\* when the control was allocated.
C21_ShapeAfterLockAllThrough ==
  /\ \A k \in 1..Len(controls) :
       /\ \A x \in CompoundControlsIn(controls[k]) :
            AfterLock(x) =>
              /\ Len(x.components) = getSubManifoldCount(x.owner)
              /\ \A j \in 1..Len(Accesses(x.owner, x)) :
                   Accesses(x.owner, x)[j].by = x.owner =>
                     InBounds(Accesses(x.owner, x)[j])
       /\ AfterLockAllThrough(controls[k]) =>
            /\ ShapeMatches(controls[k].owner, controls[k])
            /\ \A j \in 1..Len(Accesses(controls[k].owner, controls[k])) :
                 InBounds(Accesses(controls[k].owner, controls[k])[j])
  /\ (ret.op = "nullControl" /\ AfterLockAllThrough(ret.before)) =>
       /\ ret.err = "none"
       /\ \A j \in 1..Len(ret.made) : InBounds(ret.made[j])

\* nullControl has read the slot of a control and the slot of the compound
\* control in it, both allocated after the locks
C21_Witness ==
  /\ ret.op = "nullControl"
  /\ AfterLockAllThrough(ret.before)
  /\ Len(ret.made) = 2
  /\ ret.made[1].by = ret.m
  /\ ret.made[2].by # ret.m
  /\ InBounds(ret.made[2])


(***************************************************************************)
(* Propagation of a compound manifold when a component's propagate throws. *)
(***************************************************************************)
\* the propagate calls entered, and the propagation functions invoked, by
\* the components of c from the i-th to the j-th, each called on its own
RECURSIVE EnteredUpTo(_, _, _, _), CallsUpTo(_, _, _, _)
EnteredUpTo(c, i, j, duration) ==
  IF i <= j
    THEN ChildPropagated(c, i, duration).entered
           \o EnteredUpTo(c, i + 1, j, duration)
    ELSE <<>>

CallsUpTo(c, i, j, duration) ==
  IF i <= j
    THEN ChildPropagated(c, i, duration).calls
           \o CallsUpTo(c, i + 1, j, duration)
    ELSE <<>>

\* the components of c whose propagate, called on its own, throws
Failing(c, duration) ==
  {i \in 0..(Len(components_[c]) - 1) :
     ChildPropagated(c, i, duration).err # "none"}

\* C22: propagate of a compound manifold with no propagation function of
\* its own, when component j is the first whose propagate throws: the
\* exception of component j is the caller's, the components after j are not
\* propagated, the components 0..j-1 of the result state are what their
\* components' propagate wrote, component j is as component j left it, and
\* the components after j are as they were.
C22_PartialPropagate ==
  \A c \in Compounds, d \in Durations :
    (statePropagation_[c] = NoFn /\ Failing(c, d) # {}) =>
      LET j == Least(Failing(c, d))
          r == Propagated(c, d)
      IN /\ r.err = ChildPropagated(c, j, d).err
         /\ r.err = "UnconfiguredPropagation"
         /\ r.entered = <<Entry(c, Input(c, "x", ""), Input(c, "u", ""), d,
                                Input(c, "r", ""))>>
                          \o EnteredUpTo(c, 0, j, d)
         /\ r.calls = CallsUpTo(c, 0, j, d)
         /\ \A i \in 0..(Len(components_[c]) - 1) :
              r.result.components[i + 1] =
                IF i <= j THEN ChildPropagated(c, i, d).result
                ELSE Input(c, "r", "").components[i + 1]

\* a compound manifold of two components, the first with a function set and
\* the second with none: propagate has thrown, with the first component of
\* the result state written and the second one as it was
C22_Witness ==
  \E c \in Compounds :
    /\ statePropagation_[c] = NoFn
    /\ Len(components_[c]) = 2
    /\ Failing(c, 1) = {1}
    /\ Propagated(c, 1).err = "UnconfiguredPropagation"
    /\ Propagated(c, 1).result.components =
         <<Value("f(x.0,u.0,1)"), Value("r.1")>>

=============================================================================
